---- MODULE Spec2Model ----
(***************************************************************************)
(* Model of the read-sync surface of the urkel tree                        *)
(* (go/storage/mkvs/urkel/sync.go): Tree.GetSubtree, Tree.GetPath and      *)
(* Tree.GetNode, with the recursive extractions doGetSubtree and           *)
(* doGetPath run as an explicit stack machine so that a caller's context   *)
(* can be cancelled, and a dereference can fail, between any two steps.    *)
(*                                                                         *)
(* The cache (lock, syncRoot, pendingRoot, derefNodeID, derefNodePtr), the *)
(* key primitives and the Subtree proof container live outside sync.go;    *)
(* they are modelled from their description in the specification.          *)
(***************************************************************************)
EXTENDS Integers, Sequences, FiniteSets, TLC

\* ------------------------------------------------------------------ bounds

\* Largest maxDepth argument handed to GetSubtree.
MaxDepthArg == 2

\* Largest BitDepth of a node id / startBitDepth handed to a call.
MaxBitDepth == 2

\* The maxDepth the storage benchmark hands to GetSubtree.
BenchmarkMaxDepth == 10

\* The maxDepth arguments of GetSubtree.
DepthArgs == 0..MaxDepthArg \cup {BenchmarkMaxDepth}

\* ------------------------------------------------------------ constants

Procs == {"p1", "p2"}
NoProc == "none"

\* Pointer with no target ("no child here").
NilPtr == 0

InvalidSubtreeIndex == 65535

\* --------------------------------------------------------------- keys

\* The first n bits of k (all of k when it is shorter).
Prefix(k, n) == SubSeq(k, 1, IF n < Len(k) THEN n ELSE Len(k))

BitLength(k) == Len(k)

\* Bit at 0-based position bit; only defined for bit < BitLength(k).
GetBit(k, bit) == k[bit + 1] = 1

\* Split at bit position: (prefix, suffix).
Split(k, at, len) == <<Prefix(k, at), SubSeq(k, at + 1, len)>>

RECURSIVE Zeros(_)
Zeros(n) == IF n <= 0 THEN <<>> ELSE <<0>> \o Zeros(n - 1)

\* k resized to exactly n bits.
Resize(k, n) == Prefix(k, n) \o Zeros(n - Len(k))

AppendBit(k, bitDepth, right) == Resize(k, bitDepth) \o <<IF right THEN 1 ELSE 0>>

Merge(k, bitDepth, label, labelLen) == Resize(k, bitDepth) \o Prefix(label, labelLen)

\* --------------------------------------------------------------- nodes

LeafNode(k, v) ==
    [kind |-> "leaf", label |-> <<>>, labelBitLength |-> 0, key |-> k, value |-> v,
     leaf |-> NilPtr, left |-> NilPtr, right |-> NilPtr]

InternalNode(lbl, lf, l, r) ==
    [kind |-> "internal", label |-> lbl, labelBitLength |-> Len(lbl), key |-> <<>>,
     value |-> "", leaf |-> lf, left |-> l, right |-> r]

\* The committed trees a cache may hold.  A pointer is the index of its node
\* in nodes (standing for the node's hash), or NilPtr.
EmptyTree == [root |-> NilPtr, nodes |-> <<>>]

LeafTree == [root |-> 1, nodes |-> <<LeafNode(<<0, 0, 0>>, "v0")>>]

DeepTree ==
    [root |-> 1,
     nodes |-> << InternalNode(<<0>>, NilPtr, 2, 3),
                  LeafNode(<<0, 0, 0>>, "v0"),
                  InternalNode(<<1>>, NilPtr, 4, 5),
                  LeafNode(<<0, 1, 0>>, "v2"),
                  LeafNode(<<0, 1, 1>>, "v3") >>]

FatTree ==
    [root |-> 1,
     nodes |-> << InternalNode(<<0>>, 2, 3, NilPtr),
                  LeafNode(<<0>>, "v"),
                  InternalNode(<<0>>, NilPtr, 4, 5),
                  LeafNode(<<0, 0, 0>>, "v0"),
                  LeafNode(<<0, 0, 1>>, "v1") >>]

Trees == {EmptyTree, LeafTree, DeepTree, FatTree}

QueryKeys == {<<>>, <<0>>, <<0, 0, 0>>, <<0, 1, 1>>, <<1, 0, 0>>}

NodeIDs == [Path : QueryKeys, BitDepth : 0..MaxBitDepth]

\* --------------------------------------------------------------- roots

Root(ns, round, hash) == [Namespace |-> ns, Round |-> round, Hash |-> hash]

\* ------------------------------------------------------------- errors

NoErr == [wrap |-> "", cause |-> "nil"]
Sentinel(code) == [wrap |-> "", cause |-> code]
Wrap(err, msg) == [wrap |-> msg, cause |-> err.cause]

ErrInvalidRoot == Sentinel("ErrInvalidRoot")
ErrDirtyRoot == Sentinel("ErrDirtyRoot")
ErrNodeNotFound == Sentinel("ErrNodeNotFound")


\* ------------------------------------------------------- proof container

\* Zero value of syncer.SubtreePointer.
ZeroPtr == [Index |-> 0, Full |-> FALSE, Valid |-> FALSE]

\* "This child provably does not exist."
\* Mutant of AbsentPtr: Valid is left at its zero value.
AbsentPtrNotValid == [Index |-> InvalidSubtreeIndex, Full |-> FALSE, Valid |-> FALSE]

AbsentPtr == [Index |-> InvalidSubtreeIndex, Full |-> FALSE, Valid |-> TRUE]

\* Mutant of FullPtr: the Full flag is forgotten.
FullPtrNotFull(idx) == [Index |-> idx, Full |-> FALSE, Valid |-> TRUE]

FullPtr(idx) == [Index |-> idx, Full |-> TRUE, Valid |-> TRUE]

\* Mutant of SummaryPtr: the index is taken one too high.
SummaryPtrOffByOne(idx) == [Index |-> idx + 1, Full |-> FALSE, Valid |-> TRUE]

SummaryPtr(idx) == [Index |-> idx, Full |-> FALSE, Valid |-> TRUE]

ZeroSummary ==
    [Label |-> <<>>, LabelBitLength |-> 0,
     LeafNode |-> ZeroPtr, Left |-> ZeroPtr, Right |-> ZeroPtr]

ZeroNode == [kind |-> "none", label |-> <<>>, labelBitLength |-> 0, key |-> <<>>,
             value |-> "", leaf |-> NilPtr, left |-> NilPtr, right |-> NilPtr]

\* nd.Extract(): the node's content, its children kept as clean hash-only
\* pointers.
Extract(nd) == nd

\* A proof entry.  of, depth and bitDepth are history fields: the node the
\* entry was emitted for and the recursion depth / bit depth of the step
\* that emitted it.
FullEntry(nd, f) ==
    [full |-> TRUE, node |-> Extract(nd), summary |-> ZeroSummary,
     of |-> f.ptr, depth |-> f.depth, bitDepth |-> f.bitDepth, key |-> f.key]

SummaryEntry(s, f) ==
    [full |-> FALSE, node |-> ZeroNode, summary |-> s,
     of |-> f.ptr, depth |-> f.depth, bitDepth |-> f.bitDepth, key |-> f.key]

\* AddFullNode / AddSummary: append one entry, return its index.
AddFullNode(st, e) == [st |-> Append(st, e), idx |-> Len(st)]

AddSummary(st, e) == [st |-> Append(st, e), idx |-> Len(st)]

\* *syncer.Subtree as returned to the caller (nil |-> TRUE is the nil pointer).
NilSubtree == [nil |-> TRUE, Root |-> ZeroPtr, entries |-> <<>>]

\* Mutant of Subtree: st.Root is never assigned.
SubtreeNoRoot(rootPtr, entries) == [nil |-> FALSE, Root |-> ZeroPtr, entries |-> entries]

Subtree(rootPtr, entries) == [nil |-> FALSE, Root |-> rootPtr, entries |-> entries]

\* ---------------------------------------------------------------- state

VARIABLES
    tree,          \* the committed tree behind cache.pendingRoot
    syncRoot,      \* cache.syncRoot
    pendingClean,  \* cache.pendingRoot.IsClean()
    lock,          \* holder of the cache mutex, or NoProc
    proc           \* per caller: the call it is in (locals, position, results)

vars == <<tree, syncRoot, pendingClean, lock, proc>>

TheSyncRoot == Root("ns", 1, "h")

\* Roots a caller may supply: the tracked one, and one differing in each field.
SuppliedRoots ==
    { TheSyncRoot, Root("other", 1, "h"), Root("ns", 2, "h"), Root("ns", 1, "g") }

Ops == {"GetSubtree", "GetPath", "GetNode"}

\* Positions at which a call holds (or must hold) the cache lock.
Critical == {"gates", "derefID", "ctx", "deref", "derefNode", "unlock"}

ZeroRet == [st |-> NilSubtree, node |-> ZeroNode, err |-> NoErr]

IdleCall ==
    [pc |-> "idle", op |-> "none", root |-> TheSyncRoot,
     id |-> [Path |-> <<>>, BitDepth |-> 0], maxDepth |-> 0,
     cancelled |-> FALSE, stack |-> <<>>, st |-> <<>>, ret |-> ZeroRet,
     \* history: dereference steps performed, why a step failed, the pointer
     \* derefNodeID located (located: it returned without error), the root
     \* pointer the traversal produced
     derefs |-> 0, cause |-> "none", target |-> NilPtr, located |-> FALSE,
     rootPtr |-> ZeroPtr,
     \* history: derefNodePtr calls of the recursion made with the context
     \* already cancelled
     late |-> 0]

Init ==
    /\ tree \in Trees
    /\ syncRoot = TheSyncRoot
    /\ pendingClean \in BOOLEAN
    /\ lock = NoProc
    /\ proc = [p \in Procs |-> IdleCall]


\* ------------------------------------------------------------ the cache

\* Mutant of RootEqual: the round is left out of the comparison.
RootEqualNoRound(a, b) ==
    a.Namespace = b.Namespace /\ a.Hash = b.Hash

\* root.Equal(&t.cache.syncRoot): all three fields match.
RootEqual(a, b) ==
    a.Namespace = b.Namespace /\ a.Round = b.Round /\ a.Hash = b.Hash

Node(ptr) == tree.nodes[ptr]

\* derefNodeID's walk from the root pointer: follows the labels of the
\* InternalNodes along id.Path until id.BitDepth is reached, a label does
\* not match, or there is no node; yields the pointer and its bit depth.
RECURSIVE WalkNodeID(_, _, _)
WalkNodeID(id, ptr, bd) ==
    IF bd >= id.BitDepth THEN [ptr |-> ptr, bd |-> bd]
    ELSE IF ptr = NilPtr THEN [ptr |-> NilPtr, bd |-> 0]
    ELSE LET n == Node(ptr)
             nbd == bd + n.labelBitLength
         IN  IF n.kind = "leaf" THEN [ptr |-> ptr, bd |-> bd]
             ELSE IF nbd > id.BitDepth \/ nbd >= BitLength(id.Path)
                 THEN [ptr |-> ptr, bd |-> bd]
             ELSE IF SubSeq(id.Path, bd + 1, nbd) # n.label
                 THEN [ptr |-> NilPtr, bd |-> 0]
             ELSE WalkNodeID(id, IF GetBit(id.Path, nbd) THEN n.right ELSE n.left, nbd)

\* Whether derefNodeID(id) has to resolve a node on its way (and so can fail).
WalkFetches(id) == id.BitDepth > 0 /\ tree.root # NilPtr

\* How a dereference under the caller's context can end: with the node, with
\* a failed fetch, or (context done) with the context's error.
FetchOutcomes(cancelled) ==
    IF cancelled THEN {"ok", "fetch", "cancelled"} ELSE {"ok", "fetch"}

\* derefNodeID(ctx, id): outcomes.
DerefNodeIDOutcomes(c) ==
    IF WalkFetches(c.id) THEN FetchOutcomes(c.cancelled) ELSE {"ok"}

\* derefNodePtr(ctx, id, ptr, key): a nil pointer resolves to no node.
DerefNodePtrOutcomes(c, ptr) ==
    IF ptr = NilPtr THEN {"ok"} ELSE FetchOutcomes(c.cancelled)

\* The error a failed dereference hands back.
DerefErr(outcome) ==
    IF outcome = "cancelled" THEN Sentinel("context.Canceled")
    ELSE Sentinel("fetch failed")

\* ------------------------------------------------- ends of a call

\* return <st, node, err> of a call: the results are set, the deferred
\* Unlock is still to run.
Return(c, st, node, err) ==
    [c EXCEPT !.pc = "unlock", !.stack = <<>>,
              !.ret = [st |-> st, node |-> node, err |-> err]]

\* A panic inside the call: no results, the deferred Unlock still runs.
Panic(c) ==
    [c EXCEPT !.pc = "unlock", !.stack = <<>>,
              !.ret = [st |-> NilSubtree, node |-> ZeroNode, err |-> Sentinel("panic")]]

\* Mutant of Gates: the clean-state gate is missing.
GatesNoDirty(root) ==
    IF ~(root.Namespace = syncRoot.Namespace /\ root.Round = syncRoot.Round
         /\ root.Hash = syncRoot.Hash)
    THEN ErrInvalidRoot
    ELSE NoErr

\* The gates of GetSubtree, GetPath and GetNode.
Gates(root) ==
    IF ~RootEqual(root, syncRoot) THEN ErrInvalidRoot
    ELSE IF ~pendingClean THEN ErrDirtyRoot
    ELSE NoErr

\* Mutant of TraversalFailed: the proof buffer filled so far is returned
\* beside the error.
TraversalFailedPartial(c, err, why) ==
    [c EXCEPT !.pc = "unlock", !.stack = <<>>, !.cause = why,
              !.ret = [st |-> Subtree(ZeroPtr, c.st), node |-> ZeroNode,
                       err |-> Wrap(err, "urkel: failed")]]

\* doGetSubtree / doGetPath returned err somewhere in the recursion: every
\* enclosing step returns it, and the call returns nil with the wrapped error.
TraversalFailed(c, err, why) ==
    Return([c EXCEPT !.cause = why], NilSubtree, ZeroNode,
           Wrap(err, IF c.op = "GetSubtree" THEN "urkel: failed to get subtree"
                     ELSE "urkel: failed to get path"))

\* The recursion returned rootPtr to GetSubtree / GetPath.
TraversalDone(c, st, rootPtr) ==
    LET c1 == [c EXCEPT !.st = st, !.rootPtr = rootPtr]
    IN  IF ~rootPtr.Valid
        THEN Return(c1, NilSubtree, ZeroNode, ErrInvalidRoot)
        ELSE Return(c1, Subtree(rootPtr, st), ZeroNode, NoErr)


\* ------------------------------------------------------ the recursion

\* One activation of doGetSubtree / doGetPath.  stage is "self" while the
\* activation has not yet looked at its node, and names the child whose
\* activation it waits for afterwards.  hasKey = FALSE is key == nil.
Frame(ptr, bitDepth, path, key, hasKey, depth, right) ==
    [ptr |-> ptr, bitDepth |-> bitDepth, path |-> path, key |-> key,
     hasKey |-> hasKey, depth |-> depth, right |-> right, stage |-> "self",
     s |-> ZeroSummary, newPath |-> <<>>, leftOn |-> FALSE, rightOn |-> FALSE]

ChildPtr(n, which) ==
    CASE which = "leaf" -> n.leaf
      [] which = "left" -> n.left
      [] which = "right" -> n.right

\* Mutant of AtMaxDepth: the comparison is off by one.
AtMaxDepthStrict(depth, maxDepth) == depth > maxDepth

\* depth >= maxDepth: nodes at maxDepth are always full nodes.
AtMaxDepth(depth, maxDepth) == depth >= maxDepth

\* The recursive calls of doGetSubtree: LeafNode at the same depth, Left and
\* Right one deeper.
SubtreeChild(par, which) ==
    LET n == Node(par.ptr)
    IN  Frame(ChildPtr(n, which), par.bitDepth + n.labelBitLength, par.newPath,
              <<>>, FALSE,
              IF which = "leaf" THEN par.depth ELSE par.depth + 1,
              which = "right")

\* Mutant of LeftOnPath: the key's bit is not consulted.
LeftOnPathAnyBit(f, n) ==
    f.bitDepth + n.labelBitLength < BitLength(f.key)

\* Mutant of LeftOnPath: past the end of the key the bit is read as 0.
LeftOnPathPastKey(f, n) ==
    IF f.bitDepth + n.labelBitLength < BitLength(f.key)
    THEN ~GetBit(f.key, f.bitDepth + n.labelBitLength)
    ELSE TRUE

\* leftKey / rightKey of doGetPath: which subtree stays on the key's path.
LeftOnPath(f, n) ==
    /\ f.bitDepth + n.labelBitLength < BitLength(f.key)
    /\ ~GetBit(f.key, f.bitDepth + n.labelBitLength)

RightOnPath(f, n) ==
    /\ f.bitDepth + n.labelBitLength < BitLength(f.key)
    /\ GetBit(f.key, f.bitDepth + n.labelBitLength)

\* The recursive calls of doGetPath: LeafNode with &newPath, Left with
\* leftKey, Right with rightKey.
PathChild(par, which) ==
    LET n == Node(par.ptr)
        on == CASE which = "leaf" -> TRUE
                [] which = "left" -> par.leftOn
                [] which = "right" -> par.rightOn
        key == CASE which = "leaf" -> par.newPath
                 [] on -> par.key
                 [] OTHER -> <<>>
    IN  Frame(ChildPtr(n, which), par.bitDepth + n.labelBitLength, par.newPath,
              key, on, IF which = "leaf" THEN par.depth ELSE par.depth + 1,
              which = "right")

Child(op, par, which) ==
    IF op = "GetSubtree" THEN SubtreeChild(par, which) ELSE PathChild(par, which)

\* An activation returns ptr to its caller.  The caller stores it and makes
\* its next recursive call, or, after Right, appends its summary and returns
\* in turn; the outermost return goes back to GetSubtree / GetPath.
RECURSIVE ReturnUp(_, _, _, _)
ReturnUp(c, stack, st, ptr) ==
    IF stack = <<>> THEN TraversalDone(c, st, ptr)
    ELSE LET par == stack[Len(stack)]
             rest == SubSeq(stack, 1, Len(stack) - 1)
         IN  CASE par.stage = "leaf" ->
                    LET par2 == [par EXCEPT !.s.LeafNode = ptr, !.stage = "left"]
                    IN  [c EXCEPT !.pc = "ctx", !.st = st,
                                  !.stack = rest \o <<par2, Child(c.op, par2, "left")>>]
               [] par.stage = "left" ->
                    LET par2 == [par EXCEPT !.s.Left = ptr, !.stage = "right"]
                    IN  [c EXCEPT !.pc = "ctx", !.st = st,
                                  !.stack = rest \o <<par2, Child(c.op, par2, "right")>>]
               [] par.stage = "right" ->
                    LET s == [par.s EXCEPT !.Right = ptr]
                        r == AddSummary(st, SummaryEntry(s, par))
                    IN  ReturnUp(c, rest, r.st, SummaryPtr(r.idx))

\* An InternalNode is decomposed: its summary is begun and the LeafNode
\* child is entered.
Descend(c, f, rest, n, leftOn, rightOn) ==
    LET par == [f EXCEPT !.stage = "leaf",
                         !.s = [ZeroSummary EXCEPT !.Label = n.label,
                                                   !.LabelBitLength = n.labelBitLength],
                         !.newPath = Merge(f.path, f.bitDepth, n.label, n.labelBitLength),
                         !.leftOn = leftOn, !.rightOn = rightOn]
    IN  [c EXCEPT !.pc = "ctx", !.stack = rest \o <<par, Child(c.op, par, "leaf")>>]

\* A node emitted as a full node.
EmitFull(c, f, rest, nd) ==
    LET r == AddFullNode(c.st, FullEntry(nd, f))
    IN  ReturnUp(c, rest, r.st, FullPtr(r.idx))

\* doGetSubtree after derefNodePtr returned without error.
SubtreeVisit(c, f, rest) ==
    IF f.ptr = NilPtr THEN ReturnUp(c, rest, c.st, AbsentPtr)
    ELSE LET nd == Node(f.ptr)
         IN  IF AtMaxDepth(f.depth, c.maxDepth) THEN EmitFull(c, f, rest, nd)
             ELSE CASE nd.kind = "internal" -> Descend(c, f, rest, nd, FALSE, FALSE)
                    [] nd.kind = "leaf" -> EmitFull(c, f, rest, nd)
                    [] OTHER -> Panic(c)

\* doGetPath after derefNodePtr returned without error.
PathVisit(c, f, rest) ==
    IF f.ptr = NilPtr THEN ReturnUp(c, rest, c.st, AbsentPtr)
    ELSE LET nd == Node(f.ptr)
         IN  IF ~f.hasKey THEN EmitFull(c, f, rest, nd)
             ELSE CASE nd.kind = "internal" ->
                         Descend(c, f, rest, nd, LeftOnPath(f, nd), RightOnPath(f, nd))
                    [] nd.kind = "leaf" -> EmitFull(c, f, rest, nd)
                    [] OTHER -> Panic(c)

\* ------------------------------------------------------------- actions

\* A caller enters GetSubtree, GetPath or GetNode and blocks in cache.Lock().
Call(p) ==
    /\ proc[p].pc \in {"idle", "returned"}
    /\ proc' = [proc EXCEPT ![p] = [IdleCall EXCEPT !.pc = "lock"]]
    /\ UNCHANGED <<tree, syncRoot, pendingClean, lock>>

\* Mutant of Lock: the lock is taken whether or not it is held.
LockNoWait(p) ==
    /\ proc[p].pc = "lock"
    /\ lock' = p
    /\ \E op \in Ops, root \in SuppliedRoots, id \in NodeIDs, d \in DepthArgs :
          /\ op # "GetSubtree" => d = 0
          /\ proc' = [proc EXCEPT ![p] = [@ EXCEPT !.pc = "gates", !.op = op,
                                            !.root = root, !.id = id, !.maxDepth = d]]
    /\ UNCHANGED <<tree, syncRoot, pendingClean>>

\* t.cache.Lock() succeeds; the call's arguments are fixed from here on.
Lock(p) ==
    /\ proc[p].pc = "lock"
    /\ lock = NoProc
    /\ lock' = p
    /\ \E op \in Ops, root \in SuppliedRoots, id \in NodeIDs, d \in DepthArgs :
          /\ op # "GetSubtree" => d = 0
          /\ proc' = [proc EXCEPT ![p] = [@ EXCEPT !.pc = "gates", !.op = op,
                                            !.root = root, !.id = id, !.maxDepth = d]]
    /\ UNCHANGED <<tree, syncRoot, pendingClean>>

\* The caller's context is cancelled (or times out) during the call.
Cancel(p) ==
    /\ proc[p].pc \in Critical \ {"unlock"}
    /\ ~proc[p].cancelled
    /\ proc' = [proc EXCEPT ![p].cancelled = TRUE]
    /\ UNCHANGED <<tree, syncRoot, pendingClean, lock>>

\* The root-match and clean-state gates.
CheckGates(p) ==
    LET c == proc[p]
        err == Gates(c.root)
    IN  /\ c.pc = "gates"
        /\ proc' = [proc EXCEPT ![p] =
                      IF err # NoErr THEN Return(c, NilSubtree, ZeroNode, err)
                      ELSE [c EXCEPT !.pc = "derefID"]]
        /\ UNCHANGED <<tree, syncRoot, pendingClean, lock>>

\* The first activation of doGetSubtree / doGetPath.
RootFrame(c, w) ==
    LET key == c.id.Path
        right == IF Len(key) > 0 THEN GetBit(key, w.bd) ELSE FALSE
        path == Split(key, w.bd, BitLength(key))[1]
    IN  Frame(w.ptr, w.bd, path, IF c.op = "GetPath" THEN key ELSE <<>>,
              c.op = "GetPath", 0, right)

\* t.cache.derefNodeID(ctx, id) and what follows it up to the first
\* recursive call (GetSubtree, GetPath) or up to derefNodePtr (GetNode).
DerefNodeID(p) ==
    LET c == proc[p]
    IN  /\ c.pc = "derefID"
        /\ \E o \in DerefNodeIDOutcomes(c) :
              LET c1 == [c EXCEPT !.derefs = @ + 1]
                  w == WalkNodeID(c.id, tree.root, 0)
                  c2 == [c1 EXCEPT !.target = w.ptr, !.located = TRUE]
              IN  proc' = [proc EXCEPT ![p] =
                     IF o # "ok"
                     THEN Return([c1 EXCEPT !.cause = o], NilSubtree, ZeroNode, ErrNodeNotFound)
                     ELSE IF c.op = "GetNode" THEN [c2 EXCEPT !.pc = "derefNode"]
                     ELSE IF Len(c.id.Path) > 0 /\ w.bd >= BitLength(c.id.Path) THEN Panic(c2)
                     ELSE [c2 EXCEPT !.pc = "ctx", !.stack = <<RootFrame(c2, w)>>]]
        /\ UNCHANGED <<tree, syncRoot, pendingClean, lock>>

\* Mutant of CtxCheck: the activation does not look at ctx.Done().
CtxCheckSkipped(p) ==
    /\ proc[p].pc = "ctx"
    /\ proc' = [proc EXCEPT ![p].pc = "deref"]
    /\ UNCHANGED <<tree, syncRoot, pendingClean, lock>>

\* select on ctx.Done() at the head of doGetSubtree / doGetPath.
CtxCheck(p) ==
    LET c == proc[p]
    IN  /\ c.pc = "ctx"
        /\ proc' = [proc EXCEPT ![p] =
                      IF c.cancelled
                      THEN TraversalFailed(c, Sentinel("context.Canceled"), "cancelled")
                      ELSE [c EXCEPT !.pc = "deref"]]
        /\ UNCHANGED <<tree, syncRoot, pendingClean, lock>>

\* t.cache.derefNodePtr of the current activation and the rest of that
\* activation up to its next recursive call or its return.
DerefNodePtr(p) ==
    LET c == proc[p]
        f == c.stack[Len(c.stack)]
        rest == SubSeq(c.stack, 1, Len(c.stack) - 1)
    IN  /\ c.pc = "deref"
        /\ \E o \in DerefNodePtrOutcomes(c, f.ptr) :
              LET c1 == [c EXCEPT !.derefs = @ + 1,
                                  !.late = IF c.cancelled THEN @ + 1 ELSE @]
              IN  proc' = [proc EXCEPT ![p] =
                     IF o # "ok" THEN TraversalFailed(c1, DerefErr(o), o)
                     ELSE IF c.op = "GetSubtree" THEN SubtreeVisit(c1, f, rest)
                     ELSE PathVisit(c1, f, rest)]
        /\ UNCHANGED <<tree, syncRoot, pendingClean, lock>>

\* Mutant of GetNodeDeref: fetching the node marks the pending root dirty.
GetNodeDerefDirties(p) ==
    LET c == proc[p]
    IN  /\ c.pc = "derefNode"
        /\ \E o \in DerefNodePtrOutcomes(c, c.target) :
              LET c1 == [c EXCEPT !.derefs = @ + 1]
              IN  proc' = [proc EXCEPT ![p] =
                     IF o # "ok"
                     THEN Return([c1 EXCEPT !.cause = o], NilSubtree, ZeroNode, ErrNodeNotFound)
                     ELSE IF c.target = NilPtr THEN Panic(c1)
                     ELSE Return(c1, NilSubtree, Extract(Node(c.target)), NoErr)]
        /\ pendingClean' = FALSE
        /\ UNCHANGED <<tree, syncRoot, lock>>

\* GetNode: t.cache.derefNodePtr(ctx, id, ptr, nil), then nd.Extract().
GetNodeDeref(p) ==
    LET c == proc[p]
    IN  /\ c.pc = "derefNode"
        /\ \E o \in DerefNodePtrOutcomes(c, c.target) :
              LET c1 == [c EXCEPT !.derefs = @ + 1]
              IN  proc' = [proc EXCEPT ![p] =
                     IF o # "ok"
                     THEN Return([c1 EXCEPT !.cause = o], NilSubtree, ZeroNode, ErrNodeNotFound)
                     ELSE IF c.target = NilPtr THEN Panic(c1)
                     ELSE Return(c1, NilSubtree, Extract(Node(c.target)), NoErr)]
        /\ UNCHANGED <<tree, syncRoot, pendingClean, lock>>

\* Mutant of Unlock: Unlock is not deferred, so a panic skips it.
UnlockUnlessPanic(p) ==
    /\ proc[p].pc = "unlock"
    /\ lock' = IF proc[p].ret.err = Sentinel("panic") THEN lock ELSE NoProc
    /\ proc' = [proc EXCEPT ![p] =
                  [IdleCall EXCEPT !.pc = "returned",
                                   !.ret.err = IF proc[p].ret.err = Sentinel("panic")
                                               THEN Sentinel("panic") ELSE NoErr]]
    /\ UNCHANGED <<tree, syncRoot, pendingClean>>

\* The deferred t.cache.Unlock(); the call is over and its results are with
\* the caller.
Unlock(p) ==
    /\ proc[p].pc = "unlock"
    /\ lock' = NoProc
    /\ proc' = [proc EXCEPT ![p] =
                  [IdleCall EXCEPT !.pc = "returned",
                                   !.ret.err = IF proc[p].ret.err = Sentinel("panic")
                                               THEN Sentinel("panic") ELSE NoErr]]
    /\ UNCHANGED <<tree, syncRoot, pendingClean>>

Next ==
    \E p \in Procs :
        \/ Call(p)
        \/ Lock(p)
        \/ Cancel(p)
        \/ CheckGates(p)
        \/ DerefNodeID(p)
        \/ CtxCheck(p)
        \/ DerefNodePtr(p)
        \/ GetNodeDeref(p)
        \/ Unlock(p)

Spec == Init /\ [][Next]_vars

\* The steps a caller takes between cache.Lock() returning and the deferred
\* Unlock: a goroutine that holds the lock keeps running.
Running(p) ==
    \/ CheckGates(p)
    \/ DerefNodeID(p)
    \/ CtxCheck(p)
    \/ DerefNodePtr(p)
    \/ GetNodeDeref(p)
    \/ Unlock(p)

\* The program with its scheduling: every dereference returns and no
\* goroutine inside a call is suspended for ever.
FairSpec == Spec /\ \A p \in Procs : WF_vars(Running(p))


\* ------------------------------------------- vocabulary of the claims

\* A call that has set its results (the deferred Unlock is still to run).
Returning(c) == c.pc = "unlock"

IsTraversal(c) == c.op \in {"GetSubtree", "GetPath"}

\* The call hands a proof to its caller.
ReturnsProof(c) == Returning(c) /\ IsTraversal(c) /\ c.ret.err = NoErr

\* The three child pointers of a tree node, absent ones left out.
Children(ptr) == {Node(ptr).leaf, Node(ptr).left, Node(ptr).right} \ {NilPtr}

RECURSIVE Descendants(_)
Descendants(ptr) ==
    IF ptr = NilPtr THEN {}
    ELSE Children(ptr) \cup UNION {Descendants(ch) : ch \in Children(ptr)}

\* Number of Left/Right edges on the way down from node from to node to
\* (the colocated LeafNode edge counts 0); -1 when to is not below from.
RECURSIVE EdgeDepth(_, _)
EdgeDepth(from, to) ==
    IF from = NilPtr THEN -1
    ELSE IF from = to THEN 0
    ELSE LET n == Node(from)
             viaLeaf == EdgeDepth(n.leaf, to)
             viaLeft == EdgeDepth(n.left, to)
             viaRight == EdgeDepth(n.right, to)
         IN  IF viaLeaf >= 0 THEN viaLeaf
             ELSE IF viaLeft >= 0 THEN viaLeft + 1
             ELSE IF viaRight >= 0 THEN viaRight + 1
             ELSE -1

\* Bit depth at which a tree node sits: the label lengths of the
\* InternalNodes above it.
RECURSIVE BitsAbove(_, _)
BitsAbove(from, to) ==
    IF from = NilPtr THEN -1
    ELSE IF from = to THEN 0
    ELSE LET n == Node(from)
             below == {BitsAbove(ch, to) : ch \in Children(from)} \ {-1}
         IN  IF below = {} THEN -1
             ELSE n.labelBitLength + (CHOOSE b \in below : TRUE)

\* Every SubtreePointer of a proof: its root and its summaries' children.
PointersOf(st) ==
    {st.Root} \cup
    UNION { {st.entries[i].summary.LeafNode, st.entries[i].summary.Left,
             st.entries[i].summary.Right} : i \in {j \in DOMAIN st.entries : ~st.entries[j].full} }

\* Indices (0-based) of the entries emitted for tree node ptr.
EntriesFor(st, ptr) == {i \in 0..(Len(st.entries) - 1) : st.entries[i + 1].of = ptr}


\* --------------------------------------------------------------- claims

\* C1: a call whose supplied root differs from the tracked sync root (in
\* namespace, round or hash) ends with ErrInvalidRoot, and no derefNodeID or
\* derefNodePtr step is performed during it.
C1_RootMismatchFailsBeforeDeref ==
    \A p \in Procs :
        LET c == proc[p]
        IN  (c.pc \in Critical \ {"gates"} /\ c.root # syncRoot)
                => /\ Returning(c)
                   /\ c.ret.err = ErrInvalidRoot
                   /\ c.ret.st = NilSubtree
                   /\ c.derefs = 0

C1_Witness ==
    \E p \in Procs :
        /\ Returning(proc[p])
        /\ proc[p].op = "GetPath"
        /\ proc[p].root.Round # syncRoot.Round
        /\ proc[p].ret.err = ErrInvalidRoot

\* C2 as stated: with a pending root that is not clean, every call fails
\* with ErrDirtyRoot, whatever root was supplied.
C2_DirtyRegardlessOfRoot ==
    \A p \in Procs :
        (Returning(proc[p]) /\ ~pendingClean) => proc[p].ret.err = ErrDirtyRoot

\* C2 (amended): with a pending root that is not clean, a call that supplies
\* the tracked sync root fails with ErrDirtyRoot, and a call that supplies
\* another root fails with ErrInvalidRoot; neither dereferences anything.
C2_DirtyGateAfterRootGate ==
    \A p \in Procs :
        LET c == proc[p]
        IN  (c.pc \in Critical \ {"gates"} /\ ~pendingClean)
                => /\ Returning(c)
                   /\ c.derefs = 0
                   /\ c.ret.err = IF c.root = syncRoot THEN ErrDirtyRoot
                                  ELSE ErrInvalidRoot

C2_Witness ==
    \E p \in Procs :
        /\ Returning(proc[p])
        /\ ~pendingClean
        /\ proc[p].root = syncRoot
        /\ proc[p].ret.err = ErrDirtyRoot

\* C3: a call is between taking and releasing the cache lock (at its gates,
\* at a dereference, at a cancellation check or proof append, at its return)
\* only while it holds the lock, so at most one call is ever in that span.
C3_CallsSerialize ==
    /\ \A p \in Procs : proc[p].pc \in Critical => lock = p
    /\ Cardinality({p \in Procs : proc[p].pc \in Critical}) <= 1

C3_Witness ==
    \E p, q \in Procs :
        /\ p # q
        /\ proc[p].pc = "deref"
        /\ Len(proc[p].st) > 0
        /\ proc[q].pc = "lock"

\* C4: the lock is held only by a call that is still running: once a call
\* has finished, by a return or by a panic, it no longer holds the lock, and
\* with no call running the lock is free for the next one.
C4_LockReleasedOnEveryExit ==
    /\ \A p \in Procs : proc[p].pc \notin Critical => lock # p
    /\ (\A p \in Procs : proc[p].pc \notin Critical) => lock = NoProc

C4_Witness ==
    \E p, q \in Procs :
        /\ p # q
        /\ proc[p].pc = "returned"
        /\ proc[p].ret.err = Sentinel("panic")
        /\ proc[q].pc = "derefID"
        /\ lock = q


\* C5 as stated: when the pointer located for the requested subtree or path
\* resolves to no node, GetSubtree and GetPath (not failing earlier on a
\* dereference or a cancellation) produce a root pointer with Valid = FALSE
\* and return ErrInvalidRoot, not a proof.
C5_AbsentTargetIsInvalidRoot ==
    \A p \in Procs :
        LET c == proc[p]
        IN  (Returning(c) /\ IsTraversal(c) /\ c.located /\ c.target = NilPtr
                /\ c.cause = "none")
                => /\ ~c.rootPtr.Valid
                   /\ c.ret.err = ErrInvalidRoot
                   /\ c.ret.st = NilSubtree

\* C6 as stated: a call that failed because its context was cancelled never
\* returns ErrNodeNotFound.
C6_CancellationNotMasked ==
    \A p \in Procs :
        (Returning(proc[p]) /\ proc[p].cause = "cancelled")
            => proc[p].ret.err # ErrNodeNotFound

\* C7: whenever GetSubtree or GetPath returns an error the returned proof is
\* nil, whatever was appended to the proof buffer before; and once a
\* recursive step has failed the call is at its return: no further step of
\* the recursion runs.
C7_NoPartialProofOnError ==
    \A p \in Procs :
        LET c == proc[p]
        IN  /\ (Returning(c) /\ IsTraversal(c) /\ c.ret.err # NoErr)
                  => c.ret.st = NilSubtree
            /\ (IsTraversal(c) /\ c.cause # "none")
                  => (Returning(c) /\ c.stack = <<>> /\ c.ret.err # NoErr)

C7_Witness ==
    \E p \in Procs :
        /\ Returning(proc[p])
        /\ proc[p].op = "GetSubtree"
        /\ proc[p].cause = "fetch"
        /\ Len(proc[p].st) >= 2
        /\ proc[p].ret.st = NilSubtree
        /\ proc[p].ret.err.cause = "fetch failed"

\* C8: in a proof returned by GetSubtree with maxDepth = d, where depth
\* counts the Left/Right edges below the subtree root (the colocated
\* LeafNode edge counts 0): no summary was emitted at depth > d, and every
\* node visited at depth exactly d is a full node, InternalNodes included.
C8_DepthTruncation ==
    \A p \in Procs :
        LET c == proc[p]
        IN  (ReturnsProof(c) /\ c.op = "GetSubtree")
                => \A i \in DOMAIN c.ret.st.entries :
                      LET e == c.ret.st.entries[i]
                          depth == EdgeDepth(c.target, e.of)
                      IN  /\ depth >= 0
                          /\ depth = e.depth
                          /\ ~e.full => depth <= c.maxDepth
                          /\ depth = c.maxDepth => e.full

C8_Witness ==
    \E p \in Procs :
        LET c == proc[p]
        IN  /\ ReturnsProof(c)
            /\ c.op = "GetSubtree"
            /\ c.maxDepth = 1
            /\ \E i, j \in DOMAIN c.ret.st.entries :
                  /\ c.ret.st.entries[i].full
                  /\ c.ret.st.entries[i].node.kind = "internal"
                  /\ EdgeDepth(c.target, c.ret.st.entries[i].of) = 1
                  /\ ~c.ret.st.entries[j].full

\* C9: in a proof returned by GetSubtree or GetPath every entry that stands
\* for a LeafNode is a full-node entry, and every SubtreePointer of the
\* proof that refers to it has Full = TRUE.
C9_LeavesAreFull ==
    \A p \in Procs :
        LET c == proc[p]
        IN  ReturnsProof(c)
                => \A i \in DOMAIN c.ret.st.entries :
                      LET e == c.ret.st.entries[i]
                      IN  Node(e.of).kind = "leaf"
                             => /\ e.full
                                /\ e.node.kind = "leaf"
                                /\ \E ptr \in PointersOf(c.ret.st) : ptr.Index = i - 1
                                /\ \A ptr \in PointersOf(c.ret.st) :
                                      ptr.Index = i - 1 => (ptr.Full /\ ptr.Valid)

C9_Witness ==
    \E p \in Procs :
        LET c == proc[p]
        IN  /\ ReturnsProof(c)
            /\ c.op = "GetPath"
            /\ Cardinality({i \in DOMAIN c.ret.st.entries :
                               Node(c.ret.st.entries[i].of).kind = "leaf"}) >= 2
            /\ \E i \in DOMAIN c.ret.st.entries : ~c.ret.st.entries[i].full

\* The children of the InternalNode at ptr that the next bit of key does not
\* select (both, when the key has no bit left after the node's label).
OffPathChildren(ptr, key) ==
    LET n == Node(ptr)
        nbd == BitsAbove(tree.root, ptr) + n.labelBitLength
    IN  IF nbd < Len(key)
        THEN (IF key[nbd + 1] = 1 THEN {n.left} ELSE {n.right}) \ {NilPtr}
        ELSE {n.left, n.right} \ {NilPtr}

\* The pointer a summary holds for the child ch of its node.
SummaryPointerTo(e, ch) ==
    IF ch = Node(e.of).left THEN e.summary.Left ELSE e.summary.Right

\* C10: in a proof returned by GetPath, for every InternalNode on the key's
\* path (the nodes that got a summary), each existing Left/Right child the
\* key's next bit does not select is emitted as exactly one full-node entry,
\* pointed to with Full = TRUE, and none of its descendants has an entry.
C10_OffPathSiblingsOpaque ==
    \A p \in Procs :
        LET c == proc[p]
            st == c.ret.st
        IN  (ReturnsProof(c) /\ c.op = "GetPath")
                => \A i \in DOMAIN st.entries :
                      LET e == st.entries[i]
                      IN  ~e.full =>
                            \A ch \in OffPathChildren(e.of, c.id.Path) :
                               /\ Cardinality(EntriesFor(st, ch)) = 1
                               /\ \A j \in EntriesFor(st, ch) :
                                     /\ st.entries[j + 1].full
                                     /\ SummaryPointerTo(e, ch) = [Index |-> j, Full |-> TRUE, Valid |-> TRUE]
                               /\ \A d \in Descendants(ch) : EntriesFor(st, d) = {}

C10_Witness ==
    \E p \in Procs :
        LET c == proc[p]
            st == c.ret.st
        IN  /\ ReturnsProof(c)
            /\ c.op = "GetPath"
            /\ \E i \in DOMAIN st.entries :
                  /\ ~st.entries[i].full
                  /\ \E ch \in OffPathChildren(st.entries[i].of, c.id.Path) :
                        /\ Node(ch).kind = "internal"
                        /\ Descendants(ch) # {}
                        /\ EntriesFor(st, ch) # {}


\* Number of InternalNodes on the path the bits of key select from ptr (at
\* bit depth bd) downwards, until a leaf, an absent child or the end of the
\* key's bits is reached.
RECURSIVE OnPathInternals(_, _, _)
OnPathInternals(ptr, key, bd) ==
    IF ptr = NilPtr THEN 0
    ELSE LET n == Node(ptr)
             nbd == bd + n.labelBitLength
         IN  IF n.kind # "internal" THEN 0
             ELSE IF nbd >= Len(key) THEN 1
             ELSE 1 + OnPathInternals(IF key[nbd + 1] = 1 THEN n.right ELSE n.left, key, nbd)

SummaryCount(st) == Cardinality({i \in DOMAIN st.entries : ~st.entries[i].full})

\* C11: in a proof returned by GetPath(root, key, 0) the number of summary
\* entries equals the number of InternalNodes on the path the key's bits
\* select from the root.
C11_SummariesCountOnPathInternals ==
    \A p \in Procs :
        LET c == proc[p]
        IN  (ReturnsProof(c) /\ c.op = "GetPath" /\ c.id.BitDepth = 0)
                => SummaryCount(c.ret.st) = OnPathInternals(tree.root, c.id.Path, 0)

C11_Witness ==
    \E p \in Procs :
        LET c == proc[p]
        IN  /\ ReturnsProof(c)
            /\ c.op = "GetPath"
            /\ c.id.BitDepth = 0
            /\ SummaryCount(c.ret.st) = 2
            /\ Len(c.ret.st.entries) = 5

\* C12: a proof returned without error carries the root pointer the
\* recursion produced, and that pointer has Valid = TRUE.
C12_ReturnedRootIsValid ==
    \A p \in Procs :
        LET c == proc[p]
        IN  ReturnsProof(c)
                => /\ ~c.ret.st.nil
                   /\ c.ret.st.Root.Valid
                   /\ c.ret.st.Root = c.rootPtr

C12_Witness ==
    \E p \in Procs :
        /\ ReturnsProof(proc[p])
        /\ proc[p].ret.st.Root.Valid
        /\ ~proc[p].ret.st.Root.Full
        /\ proc[p].ret.st.Root.Index = 2

\* The root node id {Path: [], BitDepth: 0}.
RootID == [Path |-> <<>>, BitDepth |-> 0]

\* C13: on a clean tree holding one leaf, GetSubtree(root, RootID, 10) with
\* the tracked root (no dereference failing, no cancellation seen) returns a
\* proof of exactly one entry, the leaf as a full node with its value, and a
\* root pointer that is valid, full and refers to that entry.
C13_SingleLeafScenario ==
    \A p \in Procs :
        LET c == proc[p]
        IN  (/\ Returning(c) /\ c.op = "GetSubtree" /\ tree = LeafTree
             /\ pendingClean /\ c.root = syncRoot
             /\ c.id = RootID /\ c.maxDepth = BenchmarkMaxDepth
             /\ c.cause = "none")
                => /\ c.ret.err = NoErr
                   /\ Len(c.ret.st.entries) = 1
                   /\ c.ret.st.entries[1].full
                   /\ c.ret.st.entries[1].node.kind = "leaf"
                   /\ c.ret.st.entries[1].node.value = "v0"
                   /\ c.ret.st.Root = [Index |-> 0, Full |-> TRUE, Valid |-> TRUE]

C13_Witness ==
    \E p \in Procs :
        LET c == proc[p]
        IN  /\ Returning(c) /\ c.op = "GetSubtree" /\ tree = LeafTree
            /\ pendingClean /\ c.root = syncRoot
            /\ c.id = RootID /\ c.maxDepth = BenchmarkMaxDepth
            /\ c.cause = "none"
            /\ Len(c.ret.st.entries) = 1

\* C14 as stated: a GetNode call that passed both gates ends with the
\* content of an existing node and no error, or with ErrNodeNotFound; it
\* never crashes and never returns a nil node without an error.
C14_GetNodeEndsDocumented ==
    \A p \in Procs :
        LET c == proc[p]
        IN  (Returning(c) /\ c.op = "GetNode" /\ c.derefs > 0)
                => \/ c.ret.err = NoErr /\ c.ret.node.kind \in {"internal", "leaf"}
                   \/ c.ret.err = ErrNodeNotFound


\* C15 as stated: once the context is cancelled the recursion of
\* doGetSubtree / doGetPath performs no further derefNodePtr call.
C15_NoDerefOnceCancelled ==
    \A p \in Procs : IsTraversal(proc[p]) => proc[p].late = 0

\* C15 (amended): every activation tests the context before it calls
\* derefNodePtr, and the test of the next activation ends the recursion, so
\* after a cancellation at most one derefNodePtr call is made: that of the
\* activation which had already passed its test.  An activation reaches
\* derefNodePtr only if no such late call was made before it.
C15_AtMostOneDerefOnceCancelled ==
    \A p \in Procs :
        LET c == proc[p]
        IN  IsTraversal(c)
                => /\ c.late <= 1
                   /\ c.pc = "deref" => c.late = 0
                   /\ (c.pc = "ctx" /\ c.late = 1) => c.cancelled

C15_Witness ==
    \E p \in Procs :
        LET c == proc[p]
        IN  /\ Returning(c)
            /\ IsTraversal(c)
            /\ c.late = 1
            /\ c.cause = "cancelled"
            /\ c.ret.err = Wrap(Sentinel("context.Canceled"), "urkel: failed to get path")
            /\ Len(c.st) >= 1


IsPrefix(a, b) == Len(a) <= Len(b) /\ SubSeq(b, 1, Len(a)) = a

ChildPointers(e) == {e.summary.LeafNode, e.summary.Left, e.summary.Right}

\* The proof buffer es is in post-order: a summary comes after every entry
\* of the nodes below its node, and its child pointers that are not
\* InvalidSubtreeIndex refer to earlier entries.
PostOrder(es) ==
    \A i \in DOMAIN es :
        ~es[i].full =>
            /\ \A ptr \in ChildPointers(es[i]) :
                  ptr.Index # InvalidSubtreeIndex
                      => (ptr.Index >= 0 /\ ptr.Index < i - 1)
            /\ \A j \in DOMAIN es : es[j].of \in Descendants(es[i].of) => j < i

\* A returned proof holds the buffer as it was filled, and its root pointer,
\* when not InvalidSubtreeIndex, refers to the last entry.
RootIsLast(c) ==
    ReturnsProof(c) =>
        /\ c.ret.st.entries = c.st
        /\ c.ret.st.Root.Index # InvalidSubtreeIndex
              => c.ret.st.Root.Index = Len(c.ret.st.entries) - 1

\* A step of the recursion only appends to the proof buffer.
AppendOnly ==
    \A p \in Procs :
        proc[p].pc \in {"ctx", "deref"} => IsPrefix(proc[p].st, proc'[p].st)

\* C16: the entries of a proof are appended in post-order: each summary
\* after all entries of its children, its child pointers referring to
\* smaller indices; entries are only ever appended, never changed; and a
\* root pointer that is not InvalidSubtreeIndex refers to the last entry.
C16_PostOrderAppendOnly ==
    /\ [](\A p \in Procs : IsTraversal(proc[p])
              => (PostOrder(proc[p].st) /\ RootIsLast(proc[p])))
    /\ [][AppendOnly]_vars

C16_Witness ==
    \E p \in Procs :
        LET c == proc[p]
        IN  /\ ReturnsProof(c)
            /\ Len(c.ret.st.entries) = 5
            /\ ~c.ret.st.entries[4].full
            /\ ~c.ret.st.entries[5].full
            /\ c.ret.st.entries[5].summary.Right.Index = 3
            /\ c.ret.st.Root.Index = 4


\* The pointer a summary holds for the child which of its node.
SummaryChild(e, which) ==
    CASE which = "leaf" -> e.summary.LeafNode
      [] which = "left" -> e.summary.Left
      [] which = "right" -> e.summary.Right

\* C17: a pointer that resolves to no node yields {Index:
\* InvalidSubtreeIndex, Full: false, Valid: true} and no entry, at the root
\* of the traversal and for every child of a summarised node, whatever the
\* recursion depth and whether or not the child is on the key's path.
C17_AbsentPointerEncoding ==
    \A p \in Procs :
        LET c == proc[p]
            absent == [Index |-> InvalidSubtreeIndex, Full |-> FALSE, Valid |-> TRUE]
        IN  IsTraversal(c) =>
              /\ \A i \in DOMAIN c.st :
                    /\ c.st[i].of # NilPtr
                    /\ ~c.st[i].full =>
                          \A which \in {"leaf", "left", "right"} :
                              (ChildPtr(Node(c.st[i].of), which) = NilPtr)
                                  <=> (SummaryChild(c.st[i], which) = absent)
              /\ (Returning(c) /\ c.located /\ c.target = NilPtr /\ c.cause = "none")
                    => (c.rootPtr = absent /\ c.st = <<>> /\ c.derefs = 2)

\* An absent Right child at recursion depth maxDepth of GetSubtree, and an
\* absent off-path Right child of GetPath.
C17_Witness ==
    \E p \in Procs :
        LET c == proc[p]
        IN  /\ ReturnsProof(c)
            /\ tree = FatTree
            /\ \/ c.op = "GetSubtree" /\ c.maxDepth = 1
               \/ c.op = "GetPath" /\ c.id = [Path |-> <<0, 0, 0>>, BitDepth |-> 0]
            /\ Len(c.st) >= 3
            /\ ~c.st[Len(c.st)].full
            /\ c.st[Len(c.st)].of = 1
            /\ c.st[Len(c.st)].summary.Right.Index = InvalidSubtreeIndex


\* The InternalNode of summary e ends at or beyond the last bit of key.
KeyEndsAt(e, key) ==
    BitsAbove(tree.root, e.of) + Node(e.of).labelBitLength >= Len(key)

\* C18: in a proof returned by GetPath, a summarised InternalNode whose
\* label ends at or beyond the key's last bit has neither Left nor Right on
\* the path: each existing one is a single full-node entry and is not
\* recursed into, the colocated LeafNode child is still followed (a full
\* leaf entry when it exists), and so at most three full-node entries lie
\* below the node's one summary.
C18_KeyExhaustedBothOffPath ==
    \A p \in Procs :
        LET c == proc[p]
            st == c.ret.st
        IN  (ReturnsProof(c) /\ c.op = "GetPath")
                => \A i \in DOMAIN st.entries :
                      LET e == st.entries[i]
                          n == Node(e.of)
                          below == {j \in DOMAIN st.entries :
                                       st.entries[j].of \in Descendants(e.of)}
                      IN  (~e.full /\ KeyEndsAt(e, c.id.Path)) =>
                            /\ \A which \in {"leaf", "left", "right"} :
                                  LET ch == ChildPtr(n, which)
                                  IN  ch # NilPtr =>
                                        /\ Cardinality(EntriesFor(st, ch)) = 1
                                        /\ \A j \in EntriesFor(st, ch) :
                                              /\ st.entries[j + 1].full
                                              /\ SummaryChild(e, which) = [Index |-> j, Full |-> TRUE, Valid |-> TRUE]
                            /\ \A j \in below : st.entries[j].full /\ st.entries[j].of \in Children(e.of)
                            /\ Cardinality(below) <= 3
                            /\ Cardinality(EntriesFor(st, e.of)) = 1

\* A key of one bit on the tree whose root has a colocated leaf and an
\* InternalNode as Left child: the leaf and the Left child are full nodes.
C18_Witness ==
    \E p \in Procs :
        LET c == proc[p]
            st == c.ret.st
        IN  /\ ReturnsProof(c)
            /\ c.op = "GetPath"
            /\ c.id.Path = <<0>>
            /\ tree = FatTree
            /\ Len(st.entries) = 3
            /\ st.entries[1].node.kind = "leaf"
            /\ st.entries[2].node.kind = "internal"
            /\ ~st.entries[3].full


\* C19: no step of GetSubtree, GetPath or GetNode, successful or failed,
\* changes the tracked sync root or the clean/dirty status of the pending
\* root, so the two gates give every supplied root the same answer after
\* the step as before it.
C19_ReadsKeepRootAndCleanStatus ==
    [][/\ syncRoot' = syncRoot
       /\ pendingClean' = pendingClean
       /\ \A r \in SuppliedRoots : Gates(r)' = Gates(r)]_vars

\* A read that dereferenced nodes and succeeds, made after the other caller
\* has completed a call on the same cache.
C19_Witness ==
    \E p \in Procs, q \in Procs :
        /\ p # q
        /\ proc[q].pc = "returned"
        /\ Returning(proc[p])
        /\ proc[p].ret.err = NoErr
        /\ proc[p].derefs >= 2


\* The InternalNodes the key's bits select from ptr (at bit depth bd)
\* downwards, ending at a leaf, an absent child or the end of the key.
RECURSIVE OnPathChain(_, _, _)
OnPathChain(ptr, key, bd) ==
    IF ptr = NilPtr THEN {}
    ELSE LET n == Node(ptr)
             nbd == bd + n.labelBitLength
         IN  IF n.kind # "internal" THEN {}
             ELSE IF nbd >= Len(key) THEN {ptr}
             ELSE {ptr} \cup OnPathChain(IF key[nbd + 1] = 1 THEN n.right ELSE n.left,
                                         key, nbd)

\* The activations of a running traversal that have made a recursive call.
Recursing(c) == {c.stack[i].ptr : i \in 1..(Len(c.stack) - 1)}

InTraversal(c) == IsTraversal(c) /\ c.pc \in {"ctx", "deref"}

\* C20 (what the recursion visits): GetPath recurses only from
\* InternalNodes of the chain the key's bits select below the located node,
\* and every node a GetSubtree activation looks at lies at most maxDepth
\* Left/Right edges below the located node.
C20_RecursionStaysInBounds ==
    \A p \in Procs :
        LET c == proc[p]
        IN  InTraversal(c) =>
              /\ c.op = "GetPath" =>
                    Recursing(c) \subseteq
                        OnPathChain(c.target, c.id.Path, BitsAbove(tree.root, c.target))
              /\ c.op = "GetSubtree" =>
                    \A i \in DOMAIN c.stack :
                        /\ c.stack[i].depth <= c.maxDepth
                        /\ c.stack[i].ptr # NilPtr =>
                              EdgeDepth(c.target, c.stack[i].ptr) \in 0..c.maxDepth

\* C20: on the finite trees, whose labels are all at least 1 bit long, every
\* GetPath and GetSubtree traversal that has begun reaches its return
\* (GetPath with no maxDepth bound), and until then its recursion stays on
\* the key's on-path chain (GetPath) or within maxDepth (GetSubtree).
C20_TraversalsTerminate ==
    /\ []C20_RecursionStaysInBounds
    /\ \A p \in Procs : InTraversal(proc[p]) ~> Returning(proc[p])

\* GetPath for key 011 on the tree with two InternalNodes on that path went
\* down the whole chain and returned its proof.
C20_Witness ==
    \E p \in Procs :
        LET c == proc[p]
        IN  /\ ReturnsProof(c)
            /\ c.op = "GetPath"
            /\ tree = DeepTree
            /\ c.id = [Path |-> <<0, 1, 1>>, BitDepth |-> 0]
            /\ SummaryCount(c.ret.st) = 2
            /\ Len(c.ret.st.entries) = 5

====
